---------------------------- MODULE Spec2Model ----------------------------
(***************************************************************************)
(* coercion.ts of conform-to-valibot: the value coercers coerceString and  *)
(* coerceFile, and the recursive schema rewrite enableTypeCoercion.        *)
(*                                                                         *)
(* Schema nodes live in a heap (a sequence of records; a node's identity   *)
(* is its index).  The recursion of enableTypeCoercion is run on an        *)
(* explicit call stack, one frame per activation, so that a recursion that *)
(* never returns is a behaviour of the model like any other.               *)
(***************************************************************************)
EXTENDS Integers, Sequences, FiniteSets, TLC

VARIABLES
    heap,       \* the schema nodes, the caller's first and then every node built
    norig,      \* how many nodes the caller's schema graph has: heap[1..norig]
    caches,     \* every Map made by `new Map()`: node -> replacement (0: no entry)
    stack,      \* the activations of enableTypeCoercion, the running one last
    status,     \* idle | running | returned | overflow (RangeError raised)
    result,     \* what the top-level call returned
    dispatched, \* history: per node, the activations that reached the kind dispatch
    last,       \* history: the activation that returned last
    parsed,     \* one run of the returned node's value steps on an input
    call        \* one direct call of coerceString or coerceFile

vars == <<heap, norig, caches, stack, status, result, dispatched, last, parsed, call>>

(***************************************************************************)
(* Bounds.                                                                 *)
(***************************************************************************)
\* nodes of a general schema graph
MaxNodes == 2
\* wrappers stacked around the core of a wrapper chain
MaxWrap == 2
\* characters of an input text
MaxLen == 2

\* Activations the engine's call stack holds before it raises RangeError.
\* An acyclic graph of n nodes nests at most n activations, and a chain of
\* MaxWrap wrappers around a union or object MaxWrap + 2.
StackLimit == (IF MaxNodes > MaxWrap + 2 THEN MaxNodes ELSE MaxWrap + 2) + 1

(***************************************************************************)
(* Runtime values.  Every value is a record of the same shape:             *)
(*   tag   undefined | null | string | number | NaN | boolean | bigint |   *)
(*         date | array | File | object | SyntaxError (a raised exception) *)
(*   text  the characters of a string (a File's or object's name, the      *)
(*         text a date was parsed from, the text BigInt rejected)          *)
(*   num   a number's or bigint's value, a File's or object's size         *)
(*   elems the elements of an array                                        *)
(***************************************************************************)
Val(tag, text, num, elems) == [tag |-> tag, text |-> text, num |-> num, elems |-> elems]
Undefined == Val("undefined", <<>>, 0, <<>>)
Null == Val("null", <<>>, 0, <<>>)
Str(text) == Val("string", text, 0, <<>>)
Num(n) == Val("number", <<>>, n, <<>>)
NaN == Val("NaN", <<>>, 0, <<>>)
True == Val("boolean", <<>>, 1, <<>>)
BigIntVal(n) == Val("bigint", <<>>, n, <<>>)
DateVal(text) == Val("date", text, 0, <<>>)
Arr(elems) == Val("array", <<>>, 0, elems)
FileVal(name, size) == Val("File", name, size, <<>>)
ObjVal(name, size) == Val("object", name, size, <<>>)
SyntaxError(text) == Val("SyntaxError", text, 0, <<>>)

Chars == {"4", "o", "n"}
Digits == {"4"}
DigitValue(c) == 4

Texts == UNION {[1..n -> Chars] : n \in 0..MaxLen}

IsNumeric(text) == \A i \in 1..Len(text) : text[i] \in Digits

RECURSIVE Decimal(_)
Decimal(text) ==
    IF text = <<>> THEN 0
    ELSE 10 * Decimal(SubSeq(text, 1, Len(text) - 1)) + DigitValue(text[Len(text)])

\* Number(text): the decimal value, or NaN for a text that is no numeral.
\* Number("") is 0.
NumberOf(text) == IF IsNumeric(text) THEN Num(Decimal(text)) ELSE NaN

\* BigInt(text): the integer, or a raised SyntaxError.  BigInt("") is 0n.
BigIntOf(text) == IF IsNumeric(text) THEN BigIntVal(Decimal(text)) ELSE SyntaxError(text)

\* (text) => (text === "on" ? true : text)
CheckboxOf(text) == IF text = <<"o", "n">> THEN True ELSE Str(text)

\* The date transform: new Date(timestamp), or the text itself when the date
\* is invalid.  Whether the engine's date parser accepts a text is left open
\* (valid is either).
DateOf(text, valid) == IF valid THEN DateVal(text) ELSE Str(text)

Transforms == {"none", "Number", "BigInt", "checkbox", "date"}

Transform(t, text, valid) ==
    CASE t = "Number" -> NumberOf(text)
      [] t = "BigInt" -> BigIntOf(text)
      [] t = "checkbox" -> CheckboxOf(text)
      [] t = "date" -> DateOf(text, valid)

\* coerceString without the test of lines 42-44 for the empty string
coerceStringKeepsEmpty(value, t, valid) ==
    IF value.tag # "string" THEN [out |-> value, called |-> <<>>]
    ELSE IF t = "none" THEN [out |-> value, called |-> <<>>]
    ELSE [out |-> Transform(t, value.text, valid), called |-> <<[fn |-> t, text |-> value.text]>>]

\* coerceString(value, transform): out is what it returns (or raises), called
\* the invocations of transform it made, each with the text it was given.
coerceString(value, t, valid) ==
    IF value.tag # "string" THEN [out |-> value, called |-> <<>>]
    ELSE IF value.text = <<>> THEN [out |-> Undefined, called |-> <<>>]
    ELSE IF t = "none" THEN [out |-> value, called |-> <<>>]
    ELSE [out |-> Transform(t, value.text, valid), called |-> <<[fn |-> t, text |-> value.text]>>]

\* coerceFile(file), where the File global exists
coerceFile(file) ==
    IF file.tag = "File" /\ file.text = <<>> /\ file.num = 0 THEN Undefined ELSE file

(***************************************************************************)
(* Value steps.  A node's steps are the functions coerce() has put in      *)
(* front of its own logic, outermost first; each is named after the branch *)
(* of enableTypeCoercion that attached it.                                 *)
(***************************************************************************)
\* TransformOf with the bigint step passing Number
TransformOfNumberForBigint(step) ==
    CASE step = "number" -> "Number"
      [] step = "boolean" -> "checkbox"
      [] step = "date" -> "date"
      [] step = "bigint" -> "Number"
      [] OTHER -> "none"

\* The transform each coerceString step passes (lines 145, 155, 165, 176, 197).
TransformOf(step) ==
    CASE step = "number" -> "Number"
      [] step = "boolean" -> "checkbox"
      [] step = "date" -> "date"
      [] step = "bigint" -> "BigInt"
      [] OTHER -> "none"

\* the array step without the coerceFile test of line 215
ArrayStepKeepsFile(output) ==
    IF output.tag = "array" THEN output
    ELSE IF output.tag = "undefined" THEN Arr(<<>>)
    ELSE Arr(<<output>>)

\* The array step (lines 207-222).
ArrayStep(output) ==
    IF output.tag = "array" THEN output
    ELSE IF output.tag = "undefined" \/ coerceFile(output).tag = "undefined" THEN Arr(<<>>)
    ELSE Arr(<<output>>)

ApplyStep(step, value, valid) ==
    IF step = "array" THEN [out |-> ArrayStep(value), called |-> <<>>]
    ELSE coerceString(value, TransformOf(step), valid)

\* The _parse that coerce() builds: schema._parse(action(input)), down to the
\* logic of the node the steps were attached to.  A raised exception is not
\* caught: the remaining steps do not run.
RECURSIVE RunSteps(_, _, _)
RunSteps(steps, value, valid) ==
    IF steps = <<>> \/ value.tag = "SyntaxError" THEN [out |-> value, called |-> <<>>]
    ELSE LET first == ApplyStep(Head(steps), value, valid)
             rest == RunSteps(Tail(steps), first.out, valid)
         IN [out |-> rest.out, called |-> first.called \o rest.called]

(***************************************************************************)
(* Schema nodes.                                                           *)
(*   kind    the `type` discriminator; "none" for a node without one       *)
(*   wrapped the child of a wrapper (0: no such field)                     *)
(*   options the alternatives of a union                                   *)
(*   entries the fields of an object, in order: <<key, node>>              *)
(*   steps   the value steps in front of the node's logic                  *)
(*   logic   the node whose own _parse runs after the steps (a spread copy *)
(*           keeps the _parse of the node it copies)                       *)
(***************************************************************************)
StringKinds == {"string", "literal", "enum", "undefined"}
LeafKinds == StringKinds \cup {"number", "boolean", "date", "bigint", "array"}
WrapperKinds == {"optional", "nullish", "nullable", "non_optional", "non_nullish", "non_nullable"}
SupportedKinds == LeafKinds \cup WrapperKinds \cup {"union", "object"}
\* Kinds of the schema library that no branch handles.
OtherKinds == {"picklist"}

Node(kind, wrapped, options, entries) ==
    [kind |-> kind, wrapped |-> wrapped, options |-> options, entries |-> entries,
     steps |-> <<>>, logic |-> 0]

\* StepOf with every leaf branch attaching coerceString(output)
StepOfAlwaysString(kind) == "string"

\* The step a leaf branch attaches (lines 132-223).
StepOf(kind) ==
    CASE kind \in StringKinds -> "string"
      [] kind = "number" -> "number"
      [] kind = "boolean" -> "boolean"
      [] kind = "date" -> "date"
      [] kind = "bigint" -> "bigint"
      [] kind = "array" -> "array"

\* SpreadWrap assigning options.wrap.wrapped = schema in place of the copy
SpreadWrapInPlace(h, wrap, schema) ==
    IF wrap # 0
    THEN [heap |-> [h EXCEPT ![wrap].wrapped = schema], id |-> wrap]
    ELSE [heap |-> h, id |-> schema]

\* options?.wrap ? {...options.wrap, wrapped: schema} : schema
\* A pair: the heap after the expression, and the node it evaluates to.
SpreadWrap(h, wrap, schema) ==
    IF wrap # 0
    THEN [heap |-> Append(h, [h[wrap] EXCEPT !.wrapped = schema]), id |-> Len(h) + 1]
    ELSE [heap |-> h, id |-> schema]

\* coerce(schema, action) of the schema library: a copy of schema whose _parse
\* runs action first and schema's _parse on what it returns.
coerce(hs, action) ==
    [heap |-> Append(hs.heap, [hs.heap[hs.id] EXCEPT !.steps = <<action>> \o @]),
     id |-> Len(hs.heap) + 1]

\* cache.get(type): 0 when there is no entry.
CacheGet(cs, c, type) == cs[c][type]

\* lines 329-331 without the cache.set
CacheSetNever(cs, c, type, schema) == cs

\* if (type !== schema) cache.set(type, schema)
CacheSet(cs, c, type, schema) ==
    IF type # schema THEN [cs EXCEPT ![c][type] = schema] ELSE cs

(***************************************************************************)
(* enableTypeCoercion(type, options), one activation per stack frame:      *)
(*   type, wrap  the arguments (wrap 0: no options.wrap)                   *)
(*   cache       the Map of line 113 (an index of caches)                  *)
(*   pc          enter: at line 113; wrapped, options, entries: in the     *)
(*               recursive call of that branch; coerce: back from the call *)
(*               of a wrapper branch                                       *)
(*   schema      the local `schema`                                        *)
(*   acc         what map() has collected of options or entries            *)
(*   before      history: the cache's content when the activation began    *)
(***************************************************************************)
Frame(type, wrap, cache, before) ==
    [type |-> type, wrap |-> wrap, cache |-> cache, pc |-> "enter",
     schema |-> type, acc |-> <<>>, before |-> before]

NoCall == [type |-> 0, wrap |-> 0, cache |-> 0, before |-> <<>>, after |-> <<>>, ret |-> 0, hit |-> FALSE]
NoParse == [done |-> FALSE, input |-> Undefined, out |-> Undefined, called |-> <<>>]
NoValueCall == [fn |-> "none", value |-> Undefined, transform |-> "none", valid |-> TRUE,
                done |-> FALSE, out |-> Undefined, called |-> <<>>]

Top == stack[Len(stack)]
Running == status = "running" /\ stack # <<>>
Entering == Running /\ Top.pc = "enter"
\* line 118: no cached result
Miss == CacheGet(caches, Top.cache, Top.type) = 0
Kind == heap[Top.type].kind
Counted == [dispatched EXCEPT ![Top.type] = @ + 1]

\* `return v` with the heap and the caches as the activation leaves them: the
\* frame is popped and v handed to the calling activation.
Return(v, h, cs, hit) ==
    LET f == Top
        n == Len(stack)
        caller == stack[n - 1]
        resumed == IF caller.pc = "wrapped"
                   THEN [caller EXCEPT !.schema = v, !.pc = "coerce"]
                   ELSE [caller EXCEPT !.acc = Append(@, v)]
    IN /\ heap' = h
       /\ caches' = cs
       /\ last' = [type |-> f.type, wrap |-> f.wrap, cache |-> f.cache, before |-> f.before,
                   after |-> cs[f.cache], ret |-> v, hit |-> hit]
       /\ IF n = 1
          THEN stack' = <<>> /\ status' = "returned" /\ result' = v
          ELSE stack' = Append(SubSeq(stack, 1, n - 2), resumed) /\ UNCHANGED <<status, result>>
       /\ UNCHANGED <<norig, parsed, call>>

\* The cache a recursive call runs with: options.cache when the caller passes
\* it on, or the new Map of line 113.
CalleeCache(share) == IF share THEN Top.cache ELSE Len(caches) + 1

\* A recursive call enableTypeCoercion(child, {wrap, cache}) from the running
\* activation, which waits at pc.  The engine raises RangeError when its call
\* stack is full; nothing in the module catches it.
Call(child, wrap, share, pc) ==
    /\ UNCHANGED <<heap, norig, result, last, parsed, call>>
    /\ IF Len(stack) >= StackLimit
       THEN stack' = <<>> /\ status' = "overflow" /\ UNCHANGED caches
       ELSE LET c == CalleeCache(share)
                cs == IF c > Len(caches) THEN Append(caches, [i \in 1..norig |-> 0]) ELSE caches
            IN /\ caches' = cs
               /\ stack' = Append([stack EXCEPT ![Len(stack)].pc = pc],
                                  Frame(child, wrap, c, cs[c]))
               /\ UNCHANGED status

\* lines 114-120
CacheHit ==
    /\ Entering /\ ~Miss
    /\ Return(CacheGet(caches, Top.cache, Top.type), heap, caches, TRUE)
    /\ UNCHANGED dispatched

\* lines 126-128
NoType ==
    /\ Entering /\ Miss /\ Kind = "none"
    /\ Return(Top.type, heap, caches, FALSE)
    /\ UNCHANGED dispatched

\* lines 132-223, 329-333
Leaf ==
    /\ Entering /\ Miss /\ Kind \in LeafKinds
    /\ LET r == coerce(SpreadWrap(heap, Top.wrap, Top.schema), StepOf(Kind))
       IN Return(r.id, r.heap, CacheSet(caches, Top.cache, Top.type, r.id), FALSE)
    /\ dispatched' = Counted

\* no branch of lines 132-327 taken; lines 329-333
Unsupported ==
    /\ Entering /\ Miss /\ Kind \notin SupportedKinds \cup {"none"}
    /\ Return(Top.schema, heap, CacheSet(caches, Top.cache, Top.type, Top.schema), FALSE)
    /\ dispatched' = Counted

\* lines 224-227 and the like of the other five wrapper kinds
WrapperCall ==
    /\ Entering /\ Miss /\ Kind \in WrapperKinds
    /\ Call(heap[Top.type].wrapped, Top.type, FALSE, "wrapped")
    /\ dispatched' = Counted

\* lines 228-236 and the like, 329-333
WrapperCoerce ==
    /\ Running /\ Top.pc = "coerce"
    /\ LET r == coerce(SpreadWrap(heap, Top.wrap, Top.schema), "string")
       IN Return(r.id, r.heap, CacheSet(caches, Top.cache, Top.type, r.id), FALSE)
    /\ UNCHANGED dispatched

InUnion == (Entering /\ Miss /\ Kind = "union") \/ (Running /\ Top.pc = "options")
InObject == (Entering /\ Miss /\ Kind = "object") \/ (Running /\ Top.pc = "entries")

\* line 299: the next option
UnionCall ==
    /\ InUnion /\ Len(Top.acc) < Len(heap[Top.type].options)
    /\ Call(heap[Top.type].options[Len(Top.acc) + 1], 0, FALSE, "options")
    /\ dispatched' = IF Top.pc = "enter" THEN Counted ELSE dispatched

\* lines 297-309, 329-333
UnionBuild ==
    /\ InUnion /\ Len(Top.acc) = Len(heap[Top.type].options)
    /\ LET h == Append(heap, [heap[Top.type] EXCEPT !.options = Top.acc])
           r == coerce(SpreadWrap(h, Top.wrap, Len(h)), "string")
       IN Return(r.id, r.heap, CacheSet(caches, Top.cache, Top.type, r.id), FALSE)
    /\ dispatched' = IF Top.pc = "enter" THEN Counted ELSE dispatched

\* lines 314-317: the next entry
ObjectCall ==
    /\ InObject /\ Len(Top.acc) < Len(heap[Top.type].entries)
    /\ Call(heap[Top.type].entries[Len(Top.acc) + 1][2], 0, TRUE, "entries")
    /\ dispatched' = IF Top.pc = "enter" THEN Counted ELSE dispatched

\* MapEntries pairing the keys, taken last to first, with the nodes
MapEntriesReversed(entries, acc) ==
    [i \in 1..Len(entries) |-> <<entries[Len(entries) + 1 - i][1], acc[i]>>]

\* Object.fromEntries(Object.entries(type.entries).map(...)) of lines 313-318
\* with the transformed nodes of acc
MapEntries(entries, acc) == [i \in 1..Len(entries) |-> <<entries[i][1], acc[i]>>]

\* lines 311-333
ObjectBuild ==
    /\ InObject /\ Len(Top.acc) = Len(heap[Top.type].entries)
    /\ LET h == Append(heap, [heap[Top.type] EXCEPT
                                  !.entries = MapEntries(heap[Top.type].entries, Top.acc)])
           r == SpreadWrap(h, Top.wrap, Len(h))
       IN Return(r.id, r.heap, CacheSet(caches, Top.cache, Top.type, r.id), FALSE)
    /\ dispatched' = IF Top.pc = "enter" THEN Counted ELSE dispatched

(***************************************************************************)
(* The caller's side.                                                      *)
(***************************************************************************)
\* The inputs a validation run feeds the returned node.
Inputs ==
    {Undefined, Null, Num(4), True, Arr(<<>>), Arr(<<Str(<<"o">>), Str(<<>>)>>),
     FileVal(<<>>, 0), FileVal(<<>>, 4), FileVal(<<"o">>, 0), ObjVal(<<>>, 0)}
    \cup {Str(t) : t \in Texts}

\* The external validator runs the returned node on an input: its value steps,
\* then the logic of the node they were attached to.
Parse ==
    /\ status = "returned" /\ ~parsed.done
    /\ \E v \in Inputs, valid \in BOOLEAN :
          LET r == RunSteps(heap[result].steps, v, valid)
          IN parsed' = [done |-> TRUE, input |-> v, out |-> r.out, called |-> r.called]
    /\ UNCHANGED <<heap, norig, caches, stack, status, result, dispatched, last, call>>

(***************************************************************************)
(* Schema graphs the caller may hold.                                      *)
(***************************************************************************)
Keys == <<"a", "b">>
\* the child lists of a union or an object over nodes 1..n: none, one or two
ChildLists(n) == UNION {[1..k -> 1..n] : k \in 0..Len(Keys)}
EntriesOf(children) == [i \in 1..Len(children) |-> <<Keys[i], children[i]>>]

GraphLeafKinds == {"number"}
GraphWrapperKinds == {"optional"}

NodeChoices(n) ==
    {Node(k, 0, <<>>, <<>>) : k \in GraphLeafKinds \cup OtherKinds \cup {"none"}}
    \cup {Node(k, c, <<>>, <<>>) : k \in GraphWrapperKinds, c \in 1..n}
    \cup {Node("union", 0, o, <<>>) : o \in ChildLists(n)}
    \cup {Node("object", 0, <<>>, EntriesOf(e)) : e \in ChildLists(n)}

Children(node) ==
    (IF node.wrapped # 0 THEN {node.wrapped} ELSE {})
    \cup {node.options[i] : i \in 1..Len(node.options)}
    \cup {node.entries[i][2] : i \in 1..Len(node.entries)}

RECURSIVE ReachFrom(_, _, _)
ReachFrom(g, seen, k) ==
    IF k = 0 THEN seen
    ELSE ReachFrom(g, seen \cup UNION {Children(g[i]) : i \in seen}, k - 1)

\* every node is one the root leads to
Connected(g) == ReachFrom(g, {1}, Len(g)) = 1..Len(g)

Graphs ==
    UNION {{g \in [1..n -> NodeChoices(n)] : Connected(g)} : n \in 1..MaxNodes}

\* Wrapper chains: d wrappers of any kinds stacked around a core, which is a
\* node without children or a union or object of two such nodes.
Terminals == {Node(k, 0, <<>>, <<>>) : k \in LeafKinds \cup OtherKinds \cup {"none"}}
CoreLeaves == {Node(k, 0, <<>>, <<>>) : k \in {"number", "string", "picklist"}}

\* the cores, rooted at node r
Cores(r) ==
    {<<t>> : t \in Terminals}
    \cup {<<Node("union", 0, <<r + 1, r + 2>>, <<>>), a, b>> : a \in CoreLeaves, b \in CoreLeaves}
    \cup {<<Node("object", 0, <<>>, EntriesOf(<<r + 1, r + 2>>)), a, b>> :
            a \in CoreLeaves, b \in CoreLeaves}

Chains ==
    UNION {{[i \in 1..d |-> Node(w[i], i + 1, <<>>, <<>>)] \o c :
              w \in [1..d -> WrapperKinds], c \in Cores(d + 1)} : d \in 0..MaxWrap}

\* The caller built graph g and calls enableTypeCoercion(root).
Start(g) ==
    /\ heap = [i \in 1..Len(g) |-> [g[i] EXCEPT !.logic = i]]
    /\ norig = Len(g)
    /\ caches = << [i \in 1..Len(g) |-> 0] >>
    /\ stack = << Frame(1, 0, 1, [i \in 1..Len(g) |-> 0]) >>
    /\ status = "running"
    /\ result = 0
    /\ dispatched = [i \in 1..Len(g) |-> 0]
    /\ last = NoCall
    /\ parsed = NoParse
    /\ call = NoValueCall

Init == \E g \in Graphs \cup Chains : Start(g)

Next ==
    \/ CacheHit
    \/ NoType
    \/ Leaf
    \/ Unsupported
    \/ WrapperCall
    \/ WrapperCoerce
    \/ UnionCall
    \/ UnionBuild
    \/ ObjectCall
    \/ ObjectBuild
    \/ Parse

Spec == Init /\ [][Next]_vars

(***************************************************************************)
(* The exported value helpers called on their own.                         *)
(***************************************************************************)
InitCoerce ==
    /\ heap = <<>> /\ norig = 0 /\ caches = <<>> /\ stack = <<>>
    /\ status = "idle" /\ result = 0 /\ dispatched = <<>>
    /\ last = NoCall /\ parsed = NoParse
    /\ \E fn \in {"coerceString", "coerceFile"}, v \in Inputs, t \in Transforms, valid \in BOOLEAN :
          call = [NoValueCall EXCEPT !.fn = fn, !.value = v,
                     !.transform = IF fn = "coerceString" THEN t ELSE "none",
                     !.valid = IF fn = "coerceString" /\ t = "date" THEN valid ELSE TRUE]

CallCoerceString ==
    /\ call.fn = "coerceString" /\ ~call.done
    /\ LET r == coerceString(call.value, call.transform, call.valid)
       IN call' = [call EXCEPT !.done = TRUE, !.out = r.out, !.called = r.called]
    /\ UNCHANGED <<heap, norig, caches, stack, status, result, dispatched, last, parsed>>

CallCoerceFile ==
    /\ call.fn = "coerceFile" /\ ~call.done
    /\ call' = [call EXCEPT !.done = TRUE, !.out = coerceFile(call.value)]
    /\ UNCHANGED <<heap, norig, caches, stack, status, result, dispatched, last, parsed>>

NextCoerce ==
    \/ CallCoerceString
    \/ CallCoerceFile

SpecCoerce == InitCoerce /\ [][NextCoerce]_vars

(***************************************************************************)
(* Properties.                                                             *)
(***************************************************************************)
Originals == 1..norig
\* the nodes of the caller's graph that node i leads to
Descendants(i) == ReachFrom(heap, Children(heap[i]), norig)
Cyclic == \E i \in Originals : i \in Descendants(i)

\* C1: on a schema graph with a cycle (a node that leads to itself through
\* wrapped, options or entries) the top-level call still returns: the
\* recursion never runs until the call stack is full.
C1_CycleTerminates == Cyclic => status # "overflow"

\* C2: when the top-level call has returned, no node of a supported kind of
\* the caller's graph has gone through the kind dispatch more than once,
\* whatever paths lead to it.
C2_DispatchedAtMostOnce ==
    status = "returned" =>
        \A i \in Originals : heap[i].kind \in SupportedKinds => dispatched[i] <= 1

\* Node n of the returned tree stands where node o stands in the caller's
\* graph: it has o's kind and o's own logic, and so have its children,
\* position by position.
RECURSIVE SameShape(_, _)
SameShape(o, n) ==
    /\ heap[n].kind = heap[o].kind
    /\ heap[n].logic = heap[o].logic
    /\ (heap[o].wrapped = 0) = (heap[n].wrapped = 0)
    /\ heap[o].wrapped # 0 => SameShape(heap[o].wrapped, heap[n].wrapped)
    /\ Len(heap[n].options) = Len(heap[o].options)
    /\ \A i \in 1..Len(heap[o].options) : SameShape(heap[o].options[i], heap[n].options[i])
    /\ Len(heap[n].entries) = Len(heap[o].entries)
    /\ \A i \in 1..Len(heap[o].entries) :
          /\ heap[n].entries[i][1] = heap[o].entries[i][1]
          /\ SameShape(heap[o].entries[i][2], heap[n].entries[i][2])

\* C3: the returned tree has the shape of the input: every wrapper of the
\* input is there once, at its place, around what its child became.
C3_SameStructure == status = "returned" => SameShape(1, result)

\* C8: coerceString returns a non-string value as it is, absent for the
\* empty string, a non-empty string as it is when there is no transform and
\* transform(value) otherwise; it calls transform in that last case only,
\* once, with the value.
C8_CoerceString ==
    (call.fn = "coerceString" /\ call.done) =>
        LET v == call.value
            t == call.transform
        IN /\ v.tag # "string" => call.out = v /\ call.called = <<>>
           /\ v = Str(<<>>) => call.out = Undefined /\ call.called = <<>>
           /\ (v.tag = "string" /\ v.text # <<>> /\ t = "none") =>
                 call.out = v /\ call.called = <<>>
           /\ (v.tag = "string" /\ v.text # <<>> /\ t # "none") =>
                 /\ call.out = Transform(t, v.text, call.valid)
                 /\ call.called = <<[fn |-> t, text |-> v.text]>>

\* an empty string was coerced with a transform at hand
C8_Witness ==
    call.fn = "coerceString" /\ call.done /\ call.value = Str(<<>>) /\ call.transform = "Number"

\* C4: no step changes a node of the caller's graph, and an activation on a
\* node of a supported kind returns a node that is none of the caller's.
C4_InputsUntouched ==
    [][/\ norig' = norig
       /\ \A i \in Originals : heap'[i] = heap[i]
       /\ (last' # last /\ heap[last'.type].kind \in SupportedKinds) => last'.ret > norig]_vars

\* a wrapper was copied around its child's replacement, and the call returned
C4_Witness ==
    /\ status = "returned" /\ result > norig
    /\ heap[1].kind \in WrapperKinds
    /\ heap[result].wrapped # 0

\* wrappers, one in the other, around a number node
NumberChain ==
    /\ norig >= 2
    /\ heap[norig].kind = "number"
    /\ \A i \in 1..(norig - 1) : heap[i].kind \in WrapperKinds /\ heap[i].wrapped = i + 1

\* C5 as stated: for wrappers stacked around a number node, the value the
\* steps of the returned node hand to the logic of the wrapper it copies is
\* absent for "", Number(text) for a non-empty text and the input itself for
\* a non-string; Number is called on non-empty texts only.
C5_NumberAtReturnedNode ==
    (parsed.done /\ NumberChain) =>
        LET v == parsed.input
        IN /\ heap[result].logic = 1
           /\ v = Str(<<>>) => parsed.out = Undefined /\ parsed.called = <<>>
           /\ (v.tag = "string" /\ v.text # <<>>) =>
                 /\ parsed.out = NumberOf(v.text)
                 /\ parsed.called = <<[fn |-> "Number", text |-> v.text]>>
           /\ v.tag # "string" => parsed.out = v /\ parsed.called = <<>>

\* the copies of wrappers below node n, down the wrapped slots
RECURSIVE Below(_)
Below(n) ==
    IF heap[n].wrapped > norig THEN <<heap[n].wrapped>> \o Below(heap[n].wrapped) ELSE <<>>

RECURSIVE StepsOf(_)
StepsOf(nodes) == IF nodes = <<>> THEN <<>> ELSE heap[Head(nodes)].steps \o StepsOf(Tail(nodes))

\* C5 amended: the returned node copies the outermost wrapper, and the
\* Number step stands in front of the copy of the innermost one, which holds
\* the number node.  Under two or more wrappers the returned node's own steps
\* call nothing and hand on absent for "" and the input otherwise.  The
\* steps met from the returned node down the wrapped slots to the innermost
\* copy, run in that order, hand its logic absent for "", Number(text) for a
\* non-empty text and the input itself for a non-string, and call Number on
\* non-empty texts only.
C5_NumberAtInnermost ==
    (parsed.done /\ NumberChain) =>
        LET v == parsed.input
            below == Below(result)
            inner == IF below = <<>> THEN result ELSE below[Len(below)]
            down == RunSteps(StepsOf(below), parsed.out, TRUE)
            called == parsed.called \o down.called
        IN /\ heap[result].logic = 1
           /\ Len(below) = norig - 2
           /\ heap[inner].logic = norig - 1 /\ heap[inner].wrapped = norig
           /\ norig > 2 =>
                 /\ parsed.called = <<>>
                 /\ parsed.out = IF v = Str(<<>>) THEN Undefined ELSE v
           /\ v = Str(<<>>) => down.out = Undefined /\ called = <<>>
           /\ (v.tag = "string" /\ v.text # <<>>) =>
                 /\ down.out = NumberOf(v.text)
                 /\ called = <<[fn |-> "Number", text |-> v.text]>>
           /\ v.tag # "string" => down.out = v /\ called = <<>>

\* "4" went through two wrappers around a number node: a string still at the
\* outer wrapper's logic, a number at the inner one's
C5_Witness ==
    /\ parsed.done /\ NumberChain /\ norig = 3
    /\ parsed.input = Str(<<"4">>) /\ parsed.out = Str(<<"4">>)
    /\ RunSteps(StepsOf(Below(result)), parsed.out, TRUE).out = Num(4)

\* the activation that returned last built the replacement of an object node
ObjectBuilt == last.type # 0 /\ ~last.hit /\ heap[last.type].kind = "object"

\* C6: the replacement of an object node is a new node that differs from the
\* object in its entries alone (so it has no value step): the same keys in
\* the same order, each with what the cache of the call holds for the field's
\* node afterwards (or the node itself, which then is of no supported kind);
\* with a wrap it is returned in the wrapped slot of a copy of the wrap node.
C6_ObjectRebuilt ==
    ObjectBuilt =>
        LET o == heap[last.type]
            r == last.ret
            n == IF last.wrap = 0 THEN r ELSE heap[r].wrapped
            Resolved(c) == IF last.after[c] # 0 THEN last.after[c] ELSE c
        IN /\ r > norig /\ n > norig
           /\ last.wrap # 0 => r # n /\ heap[r] = [heap[last.wrap] EXCEPT !.wrapped = n]
           /\ heap[n] = [o EXCEPT !.entries =
                            [i \in 1..Len(o.entries) |-> <<o.entries[i][1], Resolved(o.entries[i][2])>>]]
           /\ \A i \in 1..Len(o.entries) :
                 last.after[o.entries[i][2]] = 0 => heap[o.entries[i][2]].kind \notin SupportedKinds

\* an object of two fields was rebuilt inside a wrapper
C6_Witness ==
    /\ ObjectBuilt /\ last.wrap # 0
    /\ Len(heap[last.type].entries) = 2
    /\ heap[heap[last.ret].wrapped].entries[1][2] > norig

\* C7: the step of an array node gives an array back as it is, the empty
\* array for an absent input and for an empty File (name "", size 0), and the
\* one-element array of the input for anything else, "" included.
C7_ArrayStep ==
    (parsed.done /\ norig = 1 /\ heap[1].kind = "array") =>
        LET v == parsed.input
        IN /\ heap[result].steps = <<"array">>
           /\ parsed.out = IF v.tag = "array" THEN v
                           ELSE IF v = Undefined \/ v = FileVal(<<>>, 0) THEN Arr(<<>>)
                           ELSE Arr(<<v>>)

\* an empty File went through the step of an array node
C7_Witness ==
    /\ parsed.done /\ norig = 1 /\ heap[1].kind = "array"
    /\ parsed.input = FileVal(<<>>, 0) /\ parsed.out = Arr(<<>>)

\* the nodes that node i leads to through entries of objects alone
RECURSIVE EntryReach(_, _)
EntryReach(seen, k) ==
    IF k = 0 THEN seen
    ELSE EntryReach(seen \cup UNION {{heap[j].entries[e][2] : e \in 1..Len(heap[j].entries)} :
                                        j \in {x \in seen : heap[x].kind = "object"}}, k - 1)

\* C9 as stated: an activation that finds no cache entry returns a node
\* without a kind or of no supported kind as it is and leaves the cache alone;
\* for a supported kind it returns a new node and adds the entry
\* node -> replacement, the one change to its cache; a later activation on
\* that node with that cache returns the entry.
C9_OnlyOwnEntry ==
    last.type # 0 =>
        /\ (~last.hit /\ heap[last.type].kind \notin SupportedKinds) =>
              last.ret = last.type /\ last.after = last.before
        /\ (~last.hit /\ heap[last.type].kind \in SupportedKinds) =>
              /\ last.ret > norig
              /\ last.after = [last.before EXCEPT ![last.type] = last.ret]
        /\ last.hit => last.ret = last.before[last.type] /\ last.after = last.before

\* C9 amended: for a supported kind the cache gains node -> replacement and,
\* under an object node, entries for nodes its fields lead to through object
\* entries; no entry it held is changed.
C9_OwnAndFieldEntries ==
    last.type # 0 =>
        /\ (~last.hit /\ heap[last.type].kind \notin SupportedKinds) =>
              last.ret = last.type /\ last.after = last.before
        /\ (~last.hit /\ heap[last.type].kind \in SupportedKinds) =>
              /\ last.ret > norig
              /\ last.after[last.type] = last.ret
              /\ \A j \in Originals :
                    /\ last.before[j] # 0 => last.after[j] = last.before[j]
                    /\ (j # last.type /\ last.after[j] # last.before[j]) =>
                          j \in EntryReach({last.type}, norig)
        /\ last.hit => last.ret = last.before[last.type] /\ last.after = last.before

\* an object's activation left entries for its field and for itself
C9_Witness ==
    /\ last.type # 0 /\ ~last.hit /\ heap[last.type].kind = "object"
    /\ \E j \in Originals : j # last.type /\ last.before[j] = 0 /\ last.after[j] # 0
    /\ last.after[last.type] = last.ret

\* C10: building the replacement of a bigint node raises nothing; its step
\* raises on a non-empty text that is no integer and then only (the exception
\* leaves the step as it is), gives absent for "" and a non-string back.
C10_BigintStep ==
    (norig = 1 /\ heap[1].kind = "bigint") =>
        /\ status # "overflow"
        /\ parsed.done =>
              LET v == parsed.input
              IN /\ parsed.out.tag = "SyntaxError" <=>
                       (v.tag = "string" /\ v.text # <<>> /\ ~IsNumeric(v.text))
                 /\ parsed.out.tag = "SyntaxError" => parsed.out = SyntaxError(v.text)
                 /\ v = Str(<<>>) => parsed.out = Undefined
                 /\ v.tag # "string" => parsed.out = v

\* the step of a bigint node raised on "o"
C10_Witness ==
    /\ norig = 1 /\ heap[1].kind = "bigint" /\ parsed.done
    /\ parsed.input = Str(<<"o">>) /\ parsed.out.tag = "SyntaxError"

=============================================================================
